---- MODULE Spec2Model ----
(***************************************************************************)
(* sf_cluster_account_manager: reconciliation of one SolidFire cluster     *)
(* admin account.  One invocation is main(): SolidFireClusterAccount()     *)
(* followed by apply().  The remote cluster (list_cluster_admins,          *)
(* add_cluster_admin, modify_cluster_admin, remove_cluster_admin) is the   *)
(* environment; it persists between invocations, the object does not.      *)
(*                                                                         *)
(* Python's None is the empty set and a present value x is {x}.            *)
(***************************************************************************)
EXTENDS Integers, Sequences, FiniteSets, TLC

VARIABLES
    params,          \* self.module.params (the desired spec), fixed over the runs
    has_sdk,         \* HAS_SF_SDK
    check_mode,      \* self.module.check_mode of the current invocation
    remote,          \* the cluster's admin accounts, in list_cluster_admins order
    pc,              \* position of the current invocation
    connected,       \* self.sfe has been created
    access,          \* self.access (None until line 148)
    account_id,      \* self.account_id
    account_detail,  \* apply()'s local account_detail
    fetched,         \* what get_account() returned, before apply() touches it
    changed,         \* apply()'s local changed
    account_exists,  \* apply()'s local account_exists
    update_account,  \* apply()'s local update_account
    outcome,         \* how the invocation ended
    calls,           \* remote calls of the current invocation, in order
    remote0,         \* the account list when the current invocation started
    hist             \* summaries of the finished invocations

vars == <<params, has_sdk, check_mode, remote, pc, connected, access, account_id,
          account_detail, fetched, changed, account_exists, update_account,
          outcome, calls, remote0, hist>>

----------------------------------------------------------------------------
(* Bounds of the model *)

MaxAccounts == 1
MaxLookupAccounts == 2
MaxAccessLen == 2
MaxRuns == 2
MaxRerunAccounts == 1

----------------------------------------------------------------------------
(* Python values *)

None == {}
Some(x) == {x}
IsNone(o) == o = {}
Val(o) == CHOOSE x \in o : TRUE

valid_access_type ==
    <<"accounts", "administrator", "clusteradmins", "drives", "nodes", "read",
      "reporting", "repositories", "volumes", "write">>

Range(s) == {s[i] : i \in 1..Len(s)}

\* set(list)
ToSet(s) == Range(s)

\* list.remove(x) on a list without repeats, kept as the set of its elements;
\* the caller has checked that x is in it (ValueError otherwise)
ListRemove(s, x) == s \ {x}

----------------------------------------------------------------------------
(* Results of an invocation *)

NoOutcome ==
    [kind |-> "none", changed |-> None, msg |-> "", tag |-> None, name |-> None, id |-> None]

\* module.exit_json(changed=c)
ExitJson(c) ==
    [kind |-> "exit", changed |-> Some(c), msg |-> "", tag |-> None, name |-> None, id |-> None]

\* module.fail_json(msg=...): ends the process
FailJson(m, tag, name, id) ==
    [kind |-> "fail", changed |-> None, msg |-> m, tag |-> tag, name |-> name, id |-> id]

\* an exception nothing catches: traceback, no result
Uncaught(exc) ==
    [kind |-> "crash", changed |-> None, msg |-> exc, tag |-> None, name |-> None, id |-> None]

----------------------------------------------------------------------------
(* __init__ *)

RECURSIVE FirstInvalidFrom(_, _)
\* the loop of lines 144-146 from index i on: the first permission that is
\* not in valid_access_type, None when the loop runs to its end
FirstInvalidFrom(acc, i) ==
    IF i > Len(acc) THEN None
    ELSE IF acc[i] \notin Range(valid_access_type) THEN Some(acc[i])
    ELSE FirstInvalidFrom(acc, i + 1)

RECURSIVE LastInvalidFrom(_, _)
\* a loop that keeps going after an invalid permission and reports the last
LastInvalidFrom(acc, i) ==
    IF i < 1 THEN None
    ELSE IF acc[i] \notin Range(valid_access_type) THEN Some(acc[i])
    ELSE LastInvalidFrom(acc, i - 1)

LastInvalid(acc) == LastInvalidFrom(acc, Len(acc))

FirstInvalid(acc) == FirstInvalidFrom(acc, 1)

\* self.user_password = p['password']
UserPassword(p) == p.password

Construct ==
    /\ pc = "start"
    /\ account_id' = params.account_id
    /\ LET bad == FirstInvalid(params.access) IN
       IF ~IsNone(bad)
       THEN /\ outcome' = FailJson("Invalid access type:", bad, None, None)
            /\ pc' = "done"
            /\ UNCHANGED <<access, connected>>
       ELSE /\ access' = Some(params.access)
            /\ IF ~has_sdk
               THEN /\ outcome' = FailJson("Unable to import the SolidFire Python SDK",
                                           None, None, None)
                    /\ pc' = "done"
                    /\ UNCHANGED connected
               ELSE /\ connected' = TRUE
                    /\ pc' = "constructed"
                    /\ UNCHANGED outcome
    /\ UNCHANGED <<params, has_sdk, check_mode, remote, account_detail, fetched, changed,
                   account_exists, update_account, calls, remote0, hist>>

----------------------------------------------------------------------------
(* get_account *)

\* list_cluster_admins() takes no arguments
NoArgs ==
    [cluster_admin_id |-> None, access |-> None, username |-> None,
     password |-> None, attributes |-> None]

RECURSIVE ScanFrom(_, _, _, _)
\* the loop of lines 164-172 from index i on: <<account or None, self.account_id>>
ScanFrom(list, i, name, aid) ==
    IF i > Len(list) THEN <<None, aid>>
    ELSE IF list[i].username = name
         THEN IF ~IsNone(aid)
              THEN IF list[i].cluster_admin_id = Val(aid)
                   THEN <<Some(list[i]), aid>>
                   ELSE ScanFrom(list, i + 1, name, aid)
              ELSE <<Some(list[i]), Some(list[i].cluster_admin_id)>>
         ELSE ScanFrom(list, i + 1, name, aid)

\* a lookup that returns the first account of that name whatever its id
get_account_by_name(list, name, aid) ==
    LET r == ScanFrom(list, 1, name, None) IN
    <<r[1], IF IsNone(aid) THEN r[2] ELSE aid>>

get_account(list, name, aid) == ScanFrom(list, 1, name, aid)

GetAccount ==
    /\ pc = "constructed"
    /\ calls' = Append(calls, [op |-> "list", args |-> NoArgs, ok |-> TRUE])
    /\ LET r == get_account(remote, params.name, account_id) IN
       /\ account_detail' = r[1]
       /\ fetched' = r[1]
       /\ account_id' = r[2]
    /\ pc' = "fetched"
    /\ UNCHANGED <<params, has_sdk, check_mode, remote, connected, access, changed,
                   account_exists, update_account, outcome, remote0, hist>>

----------------------------------------------------------------------------
(* apply: the comparison of the fetched account with the desired one *)

\* lines 214-215: account_detail as apply() leaves it, or the exception raised.
\* account_detail is None when nothing was found, and None has no attribute
\* access; list.remove raises ValueError when "read" is not in the list.
StripRead(detail) ==
    IF IsNone(detail) THEN [exc |-> "AttributeError", detail |-> detail]
    ELSE IF IsNone(Val(detail).access) THEN [exc |-> "", detail |-> detail]
    ELSE IF "read" \notin Val(Val(detail).access) THEN [exc |-> "ValueError", detail |-> detail]
    ELSE [exc |-> "",
          detail |-> Some([Val(detail) EXCEPT
                             !.access = Some(ListRemove(Val(Val(detail).access), "read"))])]

\* lines 226-227 (the fetched username is never None)
NameDiffers(acct, p) ==
    /\ ~IsNone(p.new_name)
    /\ acct.username # Val(p.new_name)

\* lines 231-232
AttributesDiffer(acct, p) ==
    /\ ~IsNone(acct.attributes)
    /\ ~IsNone(p.attributes)
    /\ Val(acct.attributes) # Val(p.attributes)

\* lines 236-237
AccessDiffers(acct, acc) ==
    /\ ~IsNone(acct.access)
    /\ ~IsNone(acc)
    /\ Val(acct.access) # ToSet(Val(acc))

\* lines 217-243, for an account_detail that is not None
NeedsUpdate(acct, p, acc) ==
    \/ NameDiffers(acct, p)
    \/ AttributesDiffer(acct, p)
    \/ AccessDiffers(acct, acc)

\* lines 205-243: the locals after the comparison
Compare(detail, p, acc) ==
    IF ~IsNone(detail)
    THEN IF p.state = "absent"
         THEN [changed |-> TRUE, account_exists |-> TRUE, update_account |-> FALSE]
         ELSE [changed |-> NeedsUpdate(Val(detail), p, acc),
               account_exists |-> TRUE,
               update_account |-> NeedsUpdate(Val(detail), p, acc)]
    ELSE [changed |-> (p.state = "present"), account_exists |-> FALSE,
          update_account |-> FALSE]

Decide ==
    /\ pc = "fetched"
    /\ LET s == StripRead(account_detail) IN
       IF s.exc # ""
       THEN /\ outcome' = Uncaught(s.exc)
            /\ pc' = "done"
            /\ UNCHANGED <<account_detail, changed, account_exists, update_account>>
       ELSE LET c == Compare(s.detail, params, access) IN
            /\ account_detail' = s.detail
            /\ changed' = c.changed
            /\ account_exists' = c.account_exists
            /\ update_account' = c.update_account
            /\ pc' = "decided"
            /\ UNCHANGED outcome
    /\ UNCHANGED <<params, has_sdk, check_mode, remote, connected, access, account_id,
                   fetched, calls, remote0, hist>>

----------------------------------------------------------------------------
(* apply: the remote call *)

\* a choice of call that does not look at check_mode
ChosenCallInCheckMode ==
    IF changed
    THEN IF params.state = "present"
         THEN IF ~account_exists THEN "add"
              ELSE IF update_account THEN "modify" ELSE "none"
         ELSE "remove"
    ELSE "none"

\* lines 245-256: the call apply() makes, "none" when it makes none
ChosenCall ==
    IF changed /\ ~check_mode
    THEN IF params.state = "present"
         THEN IF ~account_exists THEN "add"
              ELSE IF update_account THEN "modify" ELSE "none"
         ELSE "remove"
    ELSE "none"

\* the keyword arguments of the call (lines 177-181, 188, 196-198)
CallArgs(op) ==
    CASE op = "add" ->
           [cluster_admin_id |-> None, access |-> access, username |-> Some(params.name),
            password |-> Some(UserPassword(params)), attributes |-> params.attributes]
      [] op = "modify" ->
           [cluster_admin_id |-> account_id, access |-> access, username |-> None,
            password |-> None, attributes |-> params.attributes]
      [] OTHER ->
           [cluster_admin_id |-> account_id, access |-> None, username |-> None,
            password |-> None, attributes |-> None]

\* an except clause that swallows the error: apply() goes on to exit_json
CallFailureSwallowed(op) == ExitJson(changed)

\* the message of the except clause (lines 184, 192, 202)
CallFailure(op) ==
    CASE op = "add" -> FailJson("Error creating account %s", None, Some(params.name), None)
      [] op = "modify" -> FailJson("Error updating account %s", None, None, account_id)
      [] OTHER -> FailJson("Error deleting cluster-admin account %s", None, None, account_id)

RECURSIVE MaxIdOf(_)
MaxIdOf(list) ==
    IF list = <<>> THEN 0
    ELSE LET m == MaxIdOf(Tail(list)) IN
         IF Head(list).cluster_admin_id > m THEN Head(list).cluster_admin_id ELSE m

\* the cluster grants read whatever access was asked for (lines 210-213)
Granted(acc) == Some(ToSet(Val(acc)) \cup {"read"})

\* the cluster carrying out a call that succeeds
RemoteApply(list, op, a) ==
    CASE op = "add" ->
           Append(list, [cluster_admin_id |-> MaxIdOf(list) + 1,
                         username |-> Val(a.username),
                         access |-> Granted(a.access),
                         attributes |-> a.attributes])
      [] op = "modify" ->
           [i \in 1..Len(list) |->
              IF Some(list[i].cluster_admin_id) = a.cluster_admin_id
              THEN [list[i] EXCEPT !.access = Granted(a.access),
                                   !.attributes = IF IsNone(a.attributes) THEN @
                                                  ELSE a.attributes]
              ELSE list[i]]
      [] OTHER ->
           SelectSeq(list, LAMBDA r : Some(r.cluster_admin_id) # a.cluster_admin_id)

\* lines 249-256 with the method called: the call succeeds or raises
Mutate ==
    /\ pc = "decided"
    /\ ChosenCall # "none"
    /\ \E ok \in BOOLEAN :
         /\ calls' = Append(calls, [op |-> ChosenCall, args |-> CallArgs(ChosenCall), ok |-> ok])
         /\ IF ok
            THEN /\ remote' = RemoteApply(remote, ChosenCall, CallArgs(ChosenCall))
                 /\ pc' = "applied"
                 /\ UNCHANGED outcome
            ELSE /\ outcome' = CallFailure(ChosenCall)
                 /\ pc' = "done"
                 /\ UNCHANGED remote
    /\ UNCHANGED <<params, has_sdk, check_mode, connected, access, account_id,
                   account_detail, fetched, changed, account_exists, update_account,
                   remote0, hist>>

\* lines 245-247: nothing to call
SkipMutate ==
    /\ pc = "decided"
    /\ ChosenCall = "none"
    /\ pc' = "applied"
    /\ UNCHANGED <<params, has_sdk, check_mode, remote, connected, access, account_id,
                   account_detail, fetched, changed, account_exists, update_account,
                   outcome, calls, remote0, hist>>

\* line 258
Exit ==
    /\ pc = "applied"
    /\ outcome' = ExitJson(changed)
    /\ pc' = "done"
    /\ UNCHANGED <<params, has_sdk, check_mode, remote, connected, access, account_id,
                   account_detail, fetched, changed, account_exists, update_account,
                   calls, remote0, hist>>

----------------------------------------------------------------------------
(* main, invoked again by the orchestrator with the same parameters *)

Summary ==
    [check_mode |-> check_mode, before |-> remote0, after |-> remote,
     outcome |-> outcome, calls |-> calls, connected |-> connected,
     fetched |-> fetched, account_id |-> account_id, changed |-> changed]

NextRun ==
    /\ pc = "done"
    /\ Len(hist) + 1 < MaxRuns
    /\ hist' = Append(hist, Summary)
    /\ check_mode' \in BOOLEAN
    /\ remote0' = remote
    /\ pc' = "start"
    /\ connected' = FALSE
    /\ access' = None
    /\ account_id' = None
    /\ account_detail' = None
    /\ fetched' = None
    /\ changed' = FALSE
    /\ account_exists' = FALSE
    /\ update_account' = FALSE
    /\ outcome' = NoOutcome
    /\ calls' = <<>>
    /\ UNCHANGED <<params, has_sdk, remote>>

----------------------------------------------------------------------------
(* Inputs *)

Names == {"A", "B"}
AttributeValues == {"owner=x", "owner=y"}
Optional(S) == {None} \cup {Some(x) : x \in S}

\* lists of at most n elements of S
ListsUpTo(S, n) == UNION {[1..k -> S] : k \in 0..n}

\* account lists of at most n accounts with ids 1..n, no id twice
AccountLists(n, names, accesses, attrs) ==
    {l \in ListsUpTo([cluster_admin_id : 1..n, username : names,
                      access : accesses, attributes : attrs], n) :
       \A i, j \in 1..Len(l) : i # j => l[i].cluster_admin_id # l[j].cluster_admin_id}

ParamSets(states, names, accesses, ids, newnames, attrs) ==
    [state : states, name : names, password : {"host-password"},
     user_password : {"account-password"}, access : accesses,
     account_id : ids, new_name : newnames, attributes : attrs]

Fresh ==
    /\ pc = "start"
    /\ connected = FALSE
    /\ access = None
    /\ account_id = None
    /\ account_detail = None
    /\ fetched = None
    /\ changed = FALSE
    /\ account_exists = FALSE
    /\ update_account = FALSE
    /\ outcome = NoOutcome
    /\ calls = <<>>
    /\ remote0 = remote
    /\ hist = <<>>

\* the access lists of the reconciliation runs: empty, plain, with read,
\* with a repeat, in another order, and one that is not valid
DesiredAccess ==
    {<<>>, <<"volumes">>, <<"read", "volumes">>, <<"volumes", "volumes">>, <<"bogus">>}

RemoteAccess == Optional(SUBSET {"read", "volumes"})

\* one invocation, any account list of at most MaxAccounts accounts
InitDecide ==
    /\ params \in ParamSets({"present", "absent"}, {"A"}, DesiredAccess,
                            Optional(1..(MaxAccounts + 1)), Optional(Names),
                            Optional({"owner=x"}))
    /\ has_sdk = TRUE
    /\ check_mode \in BOOLEAN
    /\ remote \in AccountLists(MaxAccounts, Names, RemoteAccess, Optional(AttributeValues))
    /\ Fresh

NextOnce == Construct \/ GetAccount \/ Decide \/ Mutate \/ SkipMutate \/ Exit

SpecDecide == InitDecide /\ [][NextOnce]_vars

\* repeated invocations from account lists of at most MaxRerunAccounts accounts
InitRerun ==
    /\ params \in ParamSets({"present", "absent"}, {"A"}, DesiredAccess,
                            Optional(1..MaxRerunAccounts), Optional(Names),
                            Optional({"owner=x"}))
    /\ has_sdk = TRUE
    /\ check_mode \in BOOLEAN
    /\ remote \in AccountLists(MaxRerunAccounts, {"A"},
                               {Some(a) : a \in SUBSET {"read", "volumes"} \ {{}}},
                               Optional(AttributeValues))
    /\ Fresh

Next == Construct \/ GetAccount \/ Decide \/ Mutate \/ SkipMutate \/ Exit \/ NextRun

Spec == InitRerun /\ [][Next]_vars

\* one invocation, accounts that share names, any account_id
InitLookup ==
    /\ params \in ParamSets({"present", "absent"}, Names, {<<"volumes">>},
                            Optional(1..(MaxLookupAccounts + 1)), {None}, {None})
    /\ has_sdk = TRUE
    /\ check_mode \in BOOLEAN
    /\ remote \in AccountLists(MaxLookupAccounts, Names,
                               {Some({"read", "volumes"}), Some({"read"})}, {None})
    /\ Fresh

SpecLookup == InitLookup /\ [][NextOnce]_vars

\* the tags of the access lists that __init__ is given: the valid ones and
\* two that are not
InputTags == Range(valid_access_type) \cup {"bogus", "Read"}

\* one invocation, any access list of at most MaxAccessLen tags
InitValidate ==
    /\ params \in ParamSets({"present", "absent"}, {"A"}, ListsUpTo(InputTags, MaxAccessLen),
                            {None}, {None}, {None})
    /\ has_sdk \in BOOLEAN
    /\ check_mode \in BOOLEAN
    /\ remote \in {<<>>,
                   <<[cluster_admin_id |-> 1, username |-> "A",
                      access |-> Some({"read", "volumes"}), attributes |-> None]>>}
    /\ Fresh

SpecValidate == InitValidate /\ [][NextOnce]_vars

----------------------------------------------------------------------------
(* Vocabulary of the properties *)

\* the permission vocabulary of the data model
PermissionVocabulary ==
    {"accounts", "administrator", "clusteradmins", "drives", "nodes", "read",
     "reporting", "repositories", "volumes", "write"}

\* the add, modify and remove calls among cs, in order
Mutations(cs) == SelectSeq(cs, LAMBDA c : c.op # "list")

Done == pc = "done"

\* the invocation has looked the account up
LookedUp == Len(calls) >= 1

\* the record the lookup returned, as the cluster sent it
Current == Val(fetched)

\* the invocation ended by reporting changed = c
Reported(c) == outcome = ExitJson(c)

\* the invocation made no add, modify or remove call
NoMutation == Mutations(calls) = <<>>

\* its only add, modify or remove call is c
OnlyMutation(op, a) ==
    /\ Len(Mutations(calls)) = 1
    /\ Mutations(calls)[1].op = op
    /\ Mutations(calls)[1].args = a

\* the call went through and changed = true was reported, or the call failed
\* and the failure was reported
CalledAndReported(op) ==
    \/ Mutations(calls)[1].ok /\ Reported(TRUE)
    \/ ~Mutations(calls)[1].ok /\ outcome.kind = "fail"

ModifyArgs ==
    [cluster_admin_id |-> Some(Current.cluster_admin_id), access |-> Some(params.access),
     username |-> None, password |-> None, attributes |-> params.attributes]

RemoveArgs ==
    [cluster_admin_id |-> Some(Current.cluster_admin_id), access |-> None,
     username |-> None, password |-> None, attributes |-> None]

AddArgs ==
    [cluster_admin_id |-> None, access |-> Some(params.access),
     username |-> Some(params.name), password |-> Some(params.user_password),
     attributes |-> params.attributes]

\* the action is NoOp
IsNoOp == Reported(FALSE) /\ NoMutation

\* the action is Update
IsUpdate ==
    IF check_mode THEN Reported(TRUE) /\ NoMutation
    ELSE OnlyMutation("modify", ModifyArgs) /\ CalledAndReported("modify")

\* the action is Delete
IsDelete ==
    IF check_mode THEN Reported(TRUE) /\ NoMutation
    ELSE OnlyMutation("remove", RemoveArgs) /\ CalledAndReported("remove")

\* the action is Create
IsCreate ==
    IF check_mode THEN Reported(TRUE) /\ NoMutation
    ELSE OnlyMutation("add", AddArgs) /\ CalledAndReported("add")

----------------------------------------------------------------------------
(* C1 *)

\* the fetched account already matches the desired spec
AlreadyMatches ==
    /\ IsNone(params.new_name) \/ Val(params.new_name) = Current.username
    /\ IsNone(params.attributes) \/ params.attributes = Current.attributes
    /\ ~IsNone(Current.access)
    /\ ToSet(params.access) = Val(Current.access) \ {"read"}

\* C1: an invocation with state = present that fetched an account which
\* already matches the desired spec (read left aside) ends with
\* changed = false and without any add, modify or remove call.
C1_MatchingAccountIsNoOp ==
    (Done /\ params.state = "present" /\ ~IsNone(fetched) /\ AlreadyMatches) => IsNoOp

----------------------------------------------------------------------------
(* C3 *)

\* C3: an invocation whose lookup found no account completes: with
\* state = present it reports changed = true and, unless check mode, makes
\* exactly one create call with access, username = name, the account's
\* password and attributes; with state = absent it reports changed = false
\* and makes no add, modify or remove call.
C3_NoCurrentCreatesOrNoOp ==
    (Done /\ LookedUp /\ IsNone(fetched)) =>
        IF params.state = "present" THEN IsCreate ELSE IsNoOp

----------------------------------------------------------------------------
(* C4 *)

\* the three conditions of the update decision
RenameAsked == ~IsNone(params.new_name) /\ Val(params.new_name) # Current.username

AttributesAsked == ~IsNone(params.attributes) /\ params.attributes # Current.attributes

AccessAsked == ToSet(params.access) # Val(Current.access) \ {"read"}

\* the fetched record's access holds read
HoldsRead == ~IsNone(Current.access) /\ "read" \in Val(Current.access)

\* C4: an invocation with state = present that fetched an account updates it
\* exactly if a rename is asked, or attributes are given and differ from the
\* record's (a record without attributes differs), or the desired access
\* differs from the record's without read; otherwise it is a NoOp.  Stated
\* for the records whose access holds read; the others are C6's.
C4_UpdateIffAnyDifference ==
    (Done /\ params.state = "present" /\ ~IsNone(fetched) /\ HoldsRead) =>
        IF RenameAsked \/ AttributesAsked \/ AccessAsked THEN IsUpdate ELSE IsNoOp

----------------------------------------------------------------------------
(* C5 *)

\* C5: an invocation with state = absent that fetched an account reports
\* changed = true and, unless check mode, makes exactly one remove call, for
\* the id of the fetched record, and no add or modify call.
C5_AbsentDeletesFetched ==
    (Done /\ params.state = "absent" /\ ~IsNone(fetched)) => IsDelete

----------------------------------------------------------------------------
(* C6 *)

\* the record with read added to its access
WithRead(r) == [r EXCEPT !.access = Some(Val(r.access) \cup {"read"})]

\* C6: whether the fetched record's access holds read or not, the invocation
\* runs to completion and decides as it does for the same record with read.
C6_ReadInvisible ==
    (Done /\ ~IsNone(fetched) /\ ~IsNone(Current.access)) =>
        /\ outcome.kind # "crash"
        /\ changed = Compare(StripRead(Some(WithRead(Current))).detail, params, access).changed

----------------------------------------------------------------------------
(* C2 *)

\* the invocations that have ended, oldest first
Ended == IF Done THEN Append(hist, Summary) ELSE hist

\* what a check-mode invocation d reports is what the invocation w without
\* check mode reports, or would have reported had its call not failed
SameReport(d, w) ==
    IF w.outcome.kind = "fail" /\ Mutations(w.calls) # <<>>
    THEN d.outcome = ExitJson(w.changed)
    ELSE d.outcome = w.outcome

\* C2: a check-mode invocation reports the changed value that an invocation
\* without check mode reports from the same account list, makes no add,
\* modify or remove call, and leaves the account list as it was.
C2_DryRunPurity ==
    /\ check_mode => (NoMutation /\ remote = remote0)
    /\ \A i \in 1..Len(Ended) :
         Ended[i].check_mode =>
            /\ Mutations(Ended[i].calls) = <<>>
            /\ Ended[i].after = Ended[i].before
            /\ \A j \in 1..Len(Ended) :
                 (~Ended[j].check_mode /\ Ended[j].before = Ended[i].before) =>
                     SameReport(Ended[i], Ended[j])

\* a check-mode invocation reported changed = true and the next one, without
\* check mode, changed the account list it left and reported the same
C2_Witness ==
    /\ Done
    /\ Len(hist) >= 1
    /\ hist[Len(hist)].check_mode
    /\ hist[Len(hist)].outcome = ExitJson(TRUE)
    /\ ~check_mode
    /\ remote0 = hist[Len(hist)].before
    /\ remote # remote0
    /\ Reported(TRUE)

----------------------------------------------------------------------------
(* C7 *)

InvalidAt(i) == params.access[i] \notin PermissionVocabulary

\* C7: when the access list holds a tag outside the vocabulary, the
\* invocation ends in the failure that names the first such tag of the list,
\* without a connection, without any remote call and without a changed result.
C7_ValidationFirst ==
    (\E i \in 1..Len(params.access) : InvalidAt(i)) =>
        /\ ~connected
        /\ calls = <<>>
        /\ remote = remote0
        /\ IsNone(outcome.changed)
        /\ pc \in {"start", "done"}
        /\ Done =>
             \E i \in 1..Len(params.access) :
                /\ InvalidAt(i)
                /\ \A j \in 1..(i - 1) : ~InvalidAt(j)
                /\ outcome = FailJson("Invalid access type:", Some(params.access[i]),
                                      None, None)

\* the list holds two different invalid tags and the invocation failed
\* naming the first of them
C7_Witness ==
    /\ Done
    /\ Len(params.access) >= 2
    /\ InvalidAt(1)
    /\ InvalidAt(2)
    /\ params.access[1] # params.access[2]
    /\ outcome = FailJson("Invalid access type:", Some(params.access[1]), None, None)

----------------------------------------------------------------------------
(* C8 *)

\* entry i of the list is one the lookup may return
Eligible(i) ==
    /\ remote0[i].username = params.name
    /\ IsNone(params.account_id) \/ remote0[i].cluster_admin_id = Val(params.account_id)

\* C8: the lookup returns the first entry of the list whose username is name
\* and, when account_id is given, whose id is account_id; none if there is no
\* such entry.  Without account_id the invocation's account id becomes the
\* id of the entry returned.
C8_LookupById ==
    LookedUp =>
        IF \E i \in 1..Len(remote0) : Eligible(i)
        THEN \E i \in 1..Len(remote0) :
                /\ Eligible(i)
                /\ \A j \in 1..(i - 1) : ~Eligible(j)
                /\ fetched = Some(remote0[i])
                /\ account_id = Some(remote0[i].cluster_admin_id)
                /\ Current.username = params.name
        ELSE fetched = None /\ account_id = params.account_id

\* two accounts share the name, account_id is the id of the second, and the
\* lookup returned the second
C8_Witness ==
    /\ LookedUp
    /\ Len(remote0) >= 2
    /\ remote0[1].username = params.name
    /\ remote0[2].username = params.name
    /\ params.account_id = Some(remote0[2].cluster_admin_id)
    /\ fetched = Some(remote0[2])

----------------------------------------------------------------------------
(* C9 *)

\* the failure outcome of the call c: the action attempted and its target
FailureOf(c) ==
    CASE c.op = "add" ->
           /\ outcome.msg = "Error creating account %s"
           /\ outcome.name = Some(params.name)
      [] c.op = "modify" ->
           /\ outcome.msg = "Error updating account %s"
           /\ outcome.id = Some(Current.cluster_admin_id)
      [] OTHER ->
           /\ outcome.msg = "Error deleting cluster-admin account %s"
           /\ outcome.id = Some(Current.cluster_admin_id)

\* C9: a create, modify or remove call that fails is the last remote call of
\* the invocation, which ends in a failure carrying the action and its
\* target (the name for create, the account id for modify and remove) and
\* no changed result.
C9_RemoteFailureTerminal ==
    \A i \in 1..Len(calls) :
        (calls[i].op # "list" /\ ~calls[i].ok) =>
            /\ i = Len(calls)
            /\ Len(Mutations(calls)) = 1
            /\ Done
            /\ outcome.kind = "fail"
            /\ IsNone(outcome.changed)
            /\ FailureOf(calls[i])

\* a modify call failed
C9_Witness ==
    /\ Done
    /\ Len(calls) = 2
    /\ calls[2].op = "modify"
    /\ ~calls[2].ok
    /\ outcome.kind = "fail"

----------------------------------------------------------------------------
(* C10 *)

\* C10: after an invocation without check mode that completed without error,
\* the next invocation with the same desired spec reports changed = false
\* and makes no add, modify or remove call.  Stated for state = present;
\* with state = absent the next invocation finds no account, which is C3's.
C10_SecondRunUnchanged ==
    (/\ Done
     /\ params.state = "present"
     /\ Len(hist) >= 1
     /\ ~hist[Len(hist)].check_mode
     /\ hist[Len(hist)].outcome.kind = "exit") => IsNoOp

====
